---- MODULE Spec2Model ----
(***************************************************************************)
(* Model of the DataCite preprint harvester                                *)
(* (src/src/datacite_preprint_harvester/harvest_datacite.py):              *)
(*   - the query signature and its digest (_sig_dict, _sig_hash),          *)
(*   - the retrying fetch (_request_get),                                  *)
(*   - the resumable page stream and the orchestrator with its             *)
(*     incremental shard flush (stream_datacite_with_resume,               *)
(*     harvest_datacite_preprints_dataframe).                              *)
(* and of the shard merge (merge_parquets.py): discovery, schema           *)
(* unification, the merge writer.                                          *)
(* The specifications of the module: SpecSig (signature), SpecFetch (one   *)
(* fetch, attempt by attempt), Spec (harvest invocations, crashes and      *)
(* reruns against a disk that survives them), SpecLive (one fetch or one   *)
(* invocation that keeps running, for termination), SpecDedup (the final   *)
(* deduplication of the harvest), SpecDiscover (shard discovery),          *)
(* SpecUnify (schema unification) and SpecMerge (one merge).               *)
(***************************************************************************)
EXTENDS Integers, Sequences, FiniteSets, TLC

VARIABLES
    sg,        \* signature machine: the two parameter dicts and their results
    rq,        \* fetch machine: one _request_get call, attempt by attempt
    cfg,       \* the arguments of the running harvest invocation
    api,       \* the upstream result set: cursor -> page
    disk,      \* what survives the process: checkpoint files and shard files
    hv,        \* the harvest process: locals of the orchestrator and the stream
    hist,      \* history of the behaviour, read by the properties only
    dv,        \* discovery machine: one discover_parquet_files call
    un,        \* schema machine: _collect_unified_schema over a list and a permutation
    mg,        \* merge machine: one merge_parquets call, step by step
    dd         \* deduplication machine: the final frame and the rows kept of it

harvestVars == <<cfg, api, disk, hv, hist, dd>>

mergeVars == <<dv, un, mg>>

vars == <<sg, rq, cfg, api, disk, hv, hist, dv, un, mg, dd>>

Range(s) == {s[i] : i \in 1..Len(s)}

(***************************************************************************)
(* Python values.  None is a value of its own; every other parameter value *)
(* is a string.  A dict is its insertion-ordered sequence of <<key,value>> *)
(* pairs with distinct keys; dict equality ignores the order.              *)
(***************************************************************************)
None == "<None>"

HasKey(d, k) == \E i \in 1..Len(d) : d[i][1] = k

Get(d, k) == d[CHOOSE i \in 1..Len(d) : d[i][1] = k][2]

DictEq(a, b) == Range(a) = Range(b)

(***************************************************************************)
(* _sig_dict: the keep list, in the order the source writes it, and the    *)
(* comprehension {k: d[k] for k in keep if k in d and d[k] is not None}.   *)
(***************************************************************************)
\* mutant of Keep: "query" left out of the keep list
KeepNoQuery ==
    << "resource-type-id",
       "from-registered-date", "until-registered-date",
       "from-created-date", "until-created-date",
       "from-updated-date", "until-updated-date",
       "client-id" >>

\* mutant of Keep: the page cursor is part of the signature
KeepWithCursor ==
    << "resource-type-id", "query",
       "from-registered-date", "until-registered-date",
       "from-created-date", "until-created-date",
       "from-updated-date", "until-updated-date",
       "client-id", "page[cursor]" >>

Keep ==
    << "resource-type-id", "query",
       "from-registered-date", "until-registered-date",
       "from-created-date", "until-created-date",
       "from-updated-date", "until-updated-date",
       "client-id" >>

SigDict(d) ==
    LET ks == SelectSeq(Keep, LAMBDA k : HasKey(d, k) /\ Get(d, k) # None)
    IN  [i \in 1..Len(ks) |-> <<ks[i], Get(d, ks[i])>>]

(***************************************************************************)
(* json.dumps(d, sort_keys=True): the pairs in ascending key order.  The   *)
(* keys of a signature are among the nine of Keep; SortedKeys lists them   *)
(* in Python's string order.                                               *)
(***************************************************************************)
SortedKeys ==
    << "client-id",
       "from-created-date", "from-registered-date", "from-updated-date",
       "query", "resource-type-id",
       "until-created-date", "until-registered-date", "until-updated-date" >>

JsonDumpsSorted(d) ==
    LET ks == SelectSeq(SortedKeys, LAMBDA k : HasKey(d, k))
    IN  [i \in 1..Len(ks) |-> <<ks[i], Get(d, ks[i])>>]

(***************************************************************************)
(* hashlib.sha1(payload).hexdigest()[:12].  SHA-1 is not computed here: a  *)
(* digest is a deterministic function of the serialised payload into a     *)
(* finite space, so distinct payloads may share a digest.  The stand-in    *)
(* folds the payload's key and value codes into DigestSpace values; with   *)
(* the codes below the signatures of two harvests that differ only in      *)
(* their start date share a digest, and the signatures of a canonical and  *)
(* of a label pass do not.                                                 *)
(***************************************************************************)
DigestSpace == 4

KeyCode(k) == CHOOSE i \in 1..Len(SortedKeys) : SortedKeys[i] = k

SigValues ==
    << "", "2000-01-01", "a", "b", "Preprint", "2000-06-01",
       "types.resourceType:Preprint", "2000-12-31", "arxiv.content", "cern.zenodo" >>

ValCode(v) == CHOOSE i \in 1..Len(SigValues) : SigValues[i] = v

RECURSIVE Fold(_, _)
Fold(payload, h) ==
    IF payload = <<>> THEN h
    ELSE Fold(Tail(payload),
              (h * 31 + KeyCode(Head(payload)[1]) * 7 + ValCode(Head(payload)[2]))
                  % DigestSpace)

SigHash(d) == Fold(JsonDumpsSorted(d), 0)

(***************************************************************************)
(* Signature machine.  A parameter dict p is drawn at Init; SigPermute     *)
(* re-inserts the same items in another order, SigChange changes the value *)
(* of one key, SigVary changes the paging keys; each computes the          *)
(* signature and digest of p and of the result q.                          *)
(***************************************************************************)
MaxParams == 2

ParamKeys ==
    << "page[size]", "page[cursor]",
       "resource-type-id", "query",
       "from-registered-date", "until-registered-date",
       "from-created-date", "until-created-date",
       "from-updated-date", "until-updated-date",
       "client-id", "disable-facets" >>

ParamValues == {None, "a", "b"}

\* the dicts over a set of keys, inserted in the order of ParamKeys
DictsOver(keys) ==
    LET ks == SelectSeq(ParamKeys, LAMBDA k : k \in keys)
    IN  { [i \in 1..Len(ks) |-> <<ks[i], f[ks[i]]>>] : f \in [keys -> ParamValues] }

ParamDicts ==
    UNION { DictsOver(keys) :
            keys \in {K \in SUBSET Range(ParamKeys) : Cardinality(K) <= MaxParams} }

Perms(d) == { t \in [1..Len(d) -> Range(d)] : Range(t) = Range(d) }

SetValue(d, k, v) == [i \in 1..Len(d) |-> IF d[i][1] = k THEN <<k, v>> ELSE d[i]]

SgIdle == [p |-> <<>>, q |-> <<>>, kind |-> "idle", key |-> "",
           sigP |-> <<>>, sigQ |-> <<>>, hP |-> 0, hQ |-> 0]

SgResult(p, q, kind, key) ==
    [p |-> p, q |-> q, kind |-> kind, key |-> key,
     sigP |-> SigDict(p), sigQ |-> SigDict(q),
     hP |-> SigHash(SigDict(p)), hQ |-> SigHash(SigDict(q))]

SigPermute ==
    /\ sg.kind = "drawn"
    /\ \E q \in Perms(sg.p) : sg' = SgResult(sg.p, q, "perm", "")
    /\ UNCHANGED <<rq, harvestVars, mergeVars>>

SigChange ==
    /\ sg.kind = "drawn"
    /\ \E i \in 1..Len(sg.p) : \E v \in ParamValues \ {sg.p[i][2]} :
          sg' = SgResult(sg.p, SetValue(sg.p, sg.p[i][1], v), "chg", sg.p[i][1])
    /\ UNCHANGED <<rq, harvestVars, mergeVars>>

\* d.get(k)
GetOr(d, k) == IF HasKey(d, k) THEN Get(d, k) ELSE None

\* the parameters _build_params sets that select no record: the page size,
\* the page cursor, the facet switch
PagingKeys == {"page[size]", "page[cursor]", "disable-facets"}

\* the items of p that are not paging keys, with the paging items pg, in the
\* insertion order of _build_params
WithPaging(p, pg) ==
    LET ks == SelectSeq(ParamKeys,
                        LAMBDA k : (HasKey(p, k) /\ k \notin PagingKeys) \/ HasKey(pg, k))
    IN  [i \in 1..Len(ks) |->
            <<ks[i], IF HasKey(pg, ks[i]) THEN Get(pg, ks[i]) ELSE Get(p, ks[i])>>]

\* q keeps every other item of p and has other paging items: paging keys are
\* added, dropped or changed, any number of them at once
SigVary ==
    /\ sg.kind = "drawn"
    /\ \E keys \in SUBSET PagingKeys : \E pg \in DictsOver(keys) :
          LET q == WithPaging(sg.p, pg)
          IN  /\ Len(q) <= MaxParams
              /\ q # sg.p
              /\ sg' = SgResult(sg.p, q, "vary", "")
    /\ UNCHANGED <<rq, harvestVars, mergeVars>>

(***************************************************************************)
(* _request_get.  A response is an HTTP status code, or NetErr when        *)
(* requests.get raises a RequestException (connection error, timeout).     *)
(* The call's state: the loop index attempt, last_exc, the delays slept so *)
(* far (milliseconds), the responses seen, and how the call ended:         *)
(*   "returned"  return r.json()                                           *)
(*   "raised"    raise last_exc                                            *)
(*   "none"      falls off the end of the function: returns None           *)
(***************************************************************************)
Retries == 6

BaseSleepMs == 500

NetErr == 0

RetryableStatus == {429, 500, 502, 503, 504}

\* the responses the model draws from: success, a non-error status other
\* than 200, a client error, two retryable statuses, a network failure
Codes == {200, 204, 404, 429, 503, NetErr}

\* r.raise_for_status() raises HTTPError for 4xx and 5xx
RaisesForStatus(code) == code >= 400 /\ code < 600

\* mutant of Sleep: the delay grows linearly with the attempt
SleepLinear(attempt) == BaseSleepMs * (attempt + 1)

Sleep(attempt) == BaseSleepMs * (2 ^ attempt)

RqStart == [attempt |-> 0, last_exc |-> "None", delays |-> <<>>,
            resps |-> <<>>, status |-> "running"]

RqIdle == [attempt |-> 0, last_exc |-> "None", delays |-> <<>>,
           resps |-> <<>>, status |-> "idle"]

\* one iteration of "for attempt in range(retries)" that receives code
AttemptStep(st, code) ==
    LET seen == [st EXCEPT !.resps = Append(@, code)]
    IN  IF code = NetErr
        THEN \* except requests.RequestException: last_exc = e; sleep
             [seen EXCEPT !.last_exc = "ConnectionError",
                          !.delays = Append(@, Sleep(st.attempt)),
                          !.attempt = @ + 1]
        ELSE IF code = 200
        THEN [seen EXCEPT !.status = "returned"]
        ELSE IF code \in RetryableStatus
        THEN \* time.sleep(base_sleep * (2 ** attempt)); continue
             [seen EXCEPT !.delays = Append(@, Sleep(st.attempt)),
                          !.attempt = @ + 1]
        ELSE IF RaisesForStatus(code)
        THEN \* raise_for_status raises HTTPError, a RequestException,
             \* inside the try: the except clause catches it
             [seen EXCEPT !.last_exc = "HTTPError",
                          !.delays = Append(@, Sleep(st.attempt)),
                          !.attempt = @ + 1]
        ELSE \* raise_for_status returns: the loop goes on without a sleep
             [seen EXCEPT !.attempt = @ + 1]

\* after the loop: "if last_exc: raise last_exc", else the implicit return None
AfterLoop(st) ==
    IF st.last_exc # "None" THEN [st EXCEPT !.status = "raised"]
                            ELSE [st EXCEPT !.status = "none"]

\* the whole call against the responses the server gives, in order
RECURSIVE RequestGet(_, _)
RequestGet(st, resps) ==
    IF st.status # "running" THEN st
    ELSE IF st.attempt >= Retries THEN AfterLoop(st)
    ELSE IF resps = <<>> THEN st
    ELSE RequestGet(AttemptStep(st, Head(resps)), Tail(resps))

FetchLooping == rq.status = "running" /\ rq.attempt < Retries

FetchOk ==
    /\ FetchLooping
    /\ rq' = AttemptStep(rq, 200)
    /\ UNCHANGED <<sg, harvestVars, mergeVars>>

FetchRetryableStatus ==
    /\ FetchLooping
    /\ \E code \in Codes \cap RetryableStatus : rq' = AttemptStep(rq, code)
    /\ UNCHANGED <<sg, harvestVars, mergeVars>>

FetchOtherStatus ==
    /\ FetchLooping
    /\ \E code \in Codes \ (RetryableStatus \cup {200, NetErr}) :
          rq' = AttemptStep(rq, code)
    /\ UNCHANGED <<sg, harvestVars, mergeVars>>

FetchNetworkError ==
    /\ FetchLooping
    /\ rq' = AttemptStep(rq, NetErr)
    /\ UNCHANGED <<sg, harvestVars, mergeVars>>

FetchExhausted ==
    /\ rq.status = "running"
    /\ rq.attempt >= Retries
    /\ rq' = AfterLoop(rq)
    /\ UNCHANGED <<sg, harvestVars, mergeVars>>

(***************************************************************************)
(* Harvest invocation arguments (harvest_datacite_preprints_dataframe).    *)
(* An invocation's cfg holds the arguments the model varies; mailto,       *)
(* include_affiliation and the save_*_path arguments do not reach the      *)
(* code modelled here.                                                     *)
(***************************************************************************)
Truthy(v) == v # None /\ v # ""

DateEnd == "2000-12-31"

FirstDate == "2000-01-01"

Dates == {FirstDate, "2000-06-01"}

MaxEvery == 2

BaseConfigs ==
    { [type_mode |-> "canonical", client_ids |-> <<>>, start_cursor |-> None,
       incremental_save_dir |-> "./batches", resume |-> TRUE],
      [type_mode |-> "both", client_ids |-> <<>>, start_cursor |-> None,
       incremental_save_dir |-> "./batches", resume |-> TRUE],
      [type_mode |-> "canonical", client_ids |-> <<"arxiv.content">>, start_cursor |-> "2",
       incremental_save_dir |-> None, resume |-> FALSE],
      [type_mode |-> "canonical", client_ids |-> <<"arxiv.content", "cern.zenodo">>,
       start_cursor |-> None, incremental_save_dir |-> None, resume |-> TRUE] }

Configs ==
    { [type_mode |-> b.type_mode, client_ids |-> b.client_ids,
       start_cursor |-> b.start_cursor,
       incremental_save_dir |-> b.incremental_save_dir, resume |-> b.resume,
       resource_type_id |-> "Preprint", type_label_value |-> None,
       date_field |-> "registered", date_start |-> d, date_end |-> DateEnd,
       rows_per_call |-> "1000", incremental_every |-> t] :
      b \in BaseConfigs, d \in Dates, t \in 1..MaxEvery }

\* f'types.resourceType:"{label}"'
LabelQuery(label) == "types.resourceType:" \o label

\* the passes list built from type_mode (lines 371-382)
Selectors(c) ==
    LET label == IF Truthy(c.type_label_value) THEN c.type_label_value
                 ELSE c.resource_type_id
    IN  CASE c.type_mode = "canonical" ->
               << [rtid |-> c.resource_type_id, query |-> None] >>
          [] c.type_mode = "label" ->
               << [rtid |-> None, query |-> LabelQuery(label)] >>
          [] c.type_mode = "both" ->
               << [rtid |-> c.resource_type_id, query |-> None],
                  [rtid |-> None, query |-> LabelQuery(label)] >>

\* client_list = client_ids if client_ids else [None]
ClientList(c) == IF c.client_ids = <<>> THEN <<None>> ELSE c.client_ids

\* "for cid in client_list: for sel in passes", flattened in iteration order
PassList(c) ==
    LET cl == ClientList(c)
        ps == Selectors(c)
        n  == Len(ps)
    IN  [i \in 1..(Len(cl) * n) |->
            [cid   |-> cl[((i - 1) \div n) + 1],
             rtid  |-> ps[((i - 1) % n) + 1].rtid,
             query |-> ps[((i - 1) % n) + 1].query]]

(***************************************************************************)
(* _build_params: the request parameters, in insertion order.              *)
(***************************************************************************)
Opt(cond, k, v) == IF cond THEN << <<k, v>> >> ELSE <<>>

DateKey(prefix, date_field) ==
    CASE prefix = "from" /\ date_field = "registered" -> "from-registered-date"
      [] prefix = "from" /\ date_field = "created" -> "from-created-date"
      [] prefix = "from" /\ date_field = "updated" -> "from-updated-date"
      [] prefix = "until" /\ date_field = "registered" -> "until-registered-date"
      [] prefix = "until" /\ date_field = "created" -> "until-created-date"
      [] prefix = "until" /\ date_field = "updated" -> "until-updated-date"

BuildParams(c, pass) ==
    LET cursor == IF Truthy(c.start_cursor) THEN c.start_cursor ELSE "1"
    IN  << <<"page[size]", c.rows_per_call>>,
           <<"page[cursor]", IF Truthy(cursor) THEN cursor ELSE "1">> >>
        \o Opt(Truthy(pass.rtid), "resource-type-id", pass.rtid)
        \o Opt(Truthy(c.date_start), DateKey("from", c.date_field), c.date_start)
        \o Opt(Truthy(c.date_end), DateKey("until", c.date_field), c.date_end)
        \o Opt(Truthy(pass.cid), "client-id", pass.cid)
        \o << <<"disable-facets", "true">> >>
        \o Opt(Truthy(pass.query), "query", pass.query)

(***************************************************************************)
(* The upstream API.  A result set is a chain of pages reached by cursor;  *)
(* a page is {data, links.next}.  An item is a record number, or 0 for an  *)
(* item without "attributes", which _one_row_wide maps to None.  A next    *)
(* link is the query of its URL, a dict; NoLink is links.next missing.     *)
(* The same chain answers every filter; a row keeps the index of the pass  *)
(* that fetched it.                                                        *)
(***************************************************************************)
NextUrl(cursor) == << <<"page[cursor]", cursor>>, <<"page[size]", "1000">> >>

NoLink == <<>>

EmptyPage == [data |-> <<>>, next |-> NoLink]

\* five records on three pages; the last page has no next link
ChainNoNext ==
    [c \in {"1", "2", "3"} |->
        CASE c = "1" -> [data |-> <<1, 2>>, next |-> NextUrl("2")]
          [] c = "2" -> [data |-> <<3, 4>>, next |-> NextUrl("3")]
          [] c = "3" -> [data |-> <<5>>, next |-> NoLink]]

\* one record on one page
ChainOnePage ==
    [c \in {"1"} |-> [data |-> <<1>>, next |-> NoLink]]

\* the last page links to a page that is empty; one item is unusable
ChainEmptyEnd ==
    [c \in {"1", "2", "3"} |->
        CASE c = "1" -> [data |-> <<1, 0>>, next |-> NextUrl("2")]
          [] c = "2" -> [data |-> <<2>>, next |-> NextUrl("3")]
          [] c = "3" -> [data |-> <<>>, next |-> NextUrl("4")]]

Chains == {ChainNoNext, ChainEmptyEnd, ChainOnePage}

Upstream(chain, params) ==
    LET c == Get(params, "page[cursor]")
    IN  IF c \in DOMAIN chain THEN chain[c] ELSE EmptyPage

\* _parse_next_cursor: parse_qs(urlparse(next_url).query).get("page[cursor]", [None])[0]
ParseNextCursor(next_url) ==
    IF HasKey(next_url, "page[cursor]") THEN Get(next_url, "page[cursor]") ELSE None

\* _one_row_wide: None for an item without attributes, else the flat row
OneRowWide(item, passIdx) ==
    IF item = 0 THEN <<>> ELSE << <<passIdx, item>> >>

\* the responses a fetch of the harvest may meet: immediate success, three
\* 503s then success, and every attempt failing (503, network error, 404)
FetchScripts ==
    { <<200>>,
      <<503, 503, 503, 200>>,
      <<503, 503, 503, 503, 503, 503>>,
      <<NetErr, NetErr, NetErr, NetErr, NetErr, NetErr>>,
      <<404, 404, 404, 404, 404, 404>> }

\* a fetch gives its caller a parsed response only when it returned one; a
\* raise, or the None the caller then calls .get on, ends the invocation
FetchSucceeds(script) == RequestGet(RqStart, script).status = "returned"

(***************************************************************************)
(* Checkpoint files.  A path is <<digest, sanitized client id>>; a file is *)
(* absent, corrupt (not parsable) or holds {signature, next_cursor}.       *)
(***************************************************************************)
\* client_id.replace(".", "_").replace("/", "_").replace(":", "_")
Sanitize(cid) ==
    CASE cid = "arxiv.content" -> "arxiv_content"
      [] cid = "cern.zenodo" -> "cern_zenodo"
      [] OTHER -> cid

\* mutant of CheckpointPath: one checkpoint file for every pass
CheckpointPathFixed(sig_h, client_id) == <<0, "">>

CheckpointPath(sig_h, client_id) ==
    IF Truthy(client_id) THEN <<sig_h, Sanitize(client_id)>> ELSE <<sig_h, "">>

NoFile == [state |-> "absent", signature |-> <<>>, next_cursor |-> None]

CorruptFile == [state |-> "corrupt", signature |-> <<>>, next_cursor |-> None]

CkptFile(path) == IF path \in DOMAIN disk.ckpt THEN disk.ckpt[path] ELSE NoFile

\* _load_checkpoint: None when the file is missing or json.load fails
LoadCheckpoint(path) ==
    IF CkptFile(path).state = "ok" THEN CkptFile(path) ELSE NoFile

\* mutant of Honoured: the stored signature is not compared
HonouredAnySignature(ck, sig) == ck.state = "ok" /\ Truthy(ck.next_cursor)

\* "if ckpt and ckpt.get("signature") == sig and ckpt.get("next_cursor")"
Honoured(ck, sig) ==
    /\ ck.state = "ok"
    /\ DictEq(ck.signature, sig)
    /\ Truthy(ck.next_cursor)

\* mutant of WriteCheckpoint: the save is skipped
WriteCheckpointSkipped(files, path, sig, next_cursor, outcome) == files

\* _save_checkpoint, by how the write goes: "ok"; "open_fail" (open raises,
\* the file is untouched); "write_fail" (opened for writing, hence
\* truncated, then the dump fails); both failures are caught and printed.
WriteCheckpoint(files, path, sig, next_cursor, outcome) ==
    LET content ==
            CASE outcome = "ok" ->
                   [state |-> "ok", signature |-> sig, next_cursor |-> next_cursor]
              [] outcome = "write_fail" -> CorruptFile
              [] OTHER -> IF path \in DOMAIN files THEN files[path] ELSE NoFile
    IN  [p \in (DOMAIN files) \cup {path} |-> IF p = path THEN content ELSE files[p]]

(***************************************************************************)
(* Shard files.  disk.shards[i + 1] is the row list of                     *)
(* datacite_preprints_chunk_{i:05d}.parquet; the files present are always  *)
(* a prefix of the numbering.                                              *)
(***************************************************************************)
\* mutant of FlushDue: strict comparison
FlushDueStrict(buffer_rows, incremental_every) == Len(buffer_rows) > incremental_every

\* "if len(buffer_rows) >= incremental_every"
FlushDue(buffer_rows, incremental_every) == Len(buffer_rows) >= incremental_every

\* df_inc.to_parquet(fname): creates the file or replaces its content
ToParquet(shards, chunk_idx, rows) ==
    IF chunk_idx + 1 <= Len(shards)
    THEN [shards EXCEPT ![chunk_idx + 1] = rows]
    ELSE Append(shards, rows)

(***************************************************************************)
(* The harvest process.  hv.pc is the place in the orchestrator and the    *)
(* generator it drives:                                                    *)
(*   "pass"      top of the loop body: _build_params, probe_total          *)
(*   "stream"    generator start: signature, checkpoint load (276-287)     *)
(*   "fetch"     _request_get of the page at base_params["page[cursor]"]   *)
(*   "yield"     yielding hv.items to the orchestrator's for loop          *)
(*   "save"      _save_checkpoint after the page's last item was consumed  *)
(*   "passdone"  generator exhausted: flush of the remainder (431-446)     *)
(*   "final"     after the last pass (448-471)                             *)
(*   "done"      the invocation returned                                   *)
(*   "dead"      the process ended: killed, or an exception propagated     *)
(***************************************************************************)
MaxRuns == 2

HvStart ==
    [pc |-> "pass", passIdx |-> 1, base_params |-> <<>>, sig |-> <<>>,
     ckpt_path |-> <<0, "">>, first |-> TRUE, items |-> <<>>, nxt |-> NoLink,
     next_cursor |-> None, buffer_rows |-> <<>>, chunk_idx_global |-> 0,
     all_rows |-> <<>>]

HvDead == [HvStart EXCEPT !.pc = "dead"]

HvDone == [HvStart EXCEPT !.pc = "done"]

PassHistStart ==
    [firstReq |-> None, loaded |-> NoFile, resumed |-> FALSE,
     saveOutcome |-> "none", savedCursor |-> None,
     passShards |-> <<>>, passRows |-> 0, peak |-> 0, passEnded |-> FALSE]

HistStart ==
    [run |-> 1, faulty |-> FALSE, sameCfg |-> TRUE,
     end |-> "none", endPass |-> 0, prevEnd |-> "none", prevEndPass |-> 0,
     reqNow |-> {}, reqPrev |-> {}, written |-> 0, rewrote |-> FALSE,
     deleted |-> FALSE, failure |-> "none", ended |-> {},
     failDisk |-> [ckpt |-> <<>>, shards |-> <<>>], pass |-> PassHistStart]

Running == hv.pc \notin {"done", "dead"}

CurrentPass == PassList(cfg)[hv.passIdx]

\* mutant of SetDefault: the key is assigned whether present or not
SetDefaultOverwrites(d, k, v) ==
    IF HasKey(d, k) THEN [i \in 1..Len(d) |-> IF d[i][1] = k THEN <<k, v>> ELSE d[i]]
    ELSE Append(d, <<k, v>>)

\* dict.setdefault(k, v)
SetDefault(d, k, v) == IF HasKey(d, k) THEN d ELSE Append(d, <<k, v>>)

\* mutant of Dies: the exception is swallowed and the orchestrator goes on
\* with the flush of the remainder and the next pass
DiesGoesOn(h) ==
    /\ hv' = [hv EXCEPT !.pc = "passdone", !.items = <<>>]
    /\ hist' = [h EXCEPT !.end = "fail", !.endPass = hv.passIdx,
                         !.failDisk = disk]

\* an exception leaves harvest_datacite_preprints_dataframe (the try of line
\* 366 has a finally clause only): the locals are lost
Dies(h) ==
    /\ hv' = HvDead
    /\ hist' = [h EXCEPT !.end = "fail", !.endPass = hv.passIdx,
                         !.failDisk = disk,
                         !.pass = PassHistStart]

\* lines 386-408: the pass's parameters, the probe, a new empty buffer
StartPass ==
    /\ hv.pc = "pass"
    /\ \E script \in FetchScripts :
          IF FetchSucceeds(script)
          THEN /\ hv' = [hv EXCEPT !.pc = "stream",
                                   !.base_params = BuildParams(cfg, CurrentPass),
                                   !.buffer_rows = <<>>]
               /\ hist' = [hist EXCEPT !.pass = PassHistStart]
          ELSE Dies([hist EXCEPT !.failure = "fetch"])
    /\ UNCHANGED <<mergeVars, dd, sg, rq, cfg, api, disk>>

\* lines 276-287: signature, checkpoint path, load, resume or fresh start
StreamStart ==
    /\ hv.pc = "stream"
    /\ LET sig   == SigDict(hv.base_params)
           sig_h == SigHash(sig)
           path  == CheckpointPath(sig_h, CurrentPass.cid)
           ck    == LoadCheckpoint(path)
       IN  /\ hv' = [hv EXCEPT
                       !.pc = "fetch",
                       !.first = TRUE,
                       !.sig = sig,
                       !.ckpt_path = path,
                       !.base_params =
                           IF Honoured(ck, sig)
                           THEN SetValue(@, "page[cursor]", ck.next_cursor)
                           ELSE SetDefault(@, "page[cursor]", "1")]
           /\ hist' = [hist EXCEPT !.pass.loaded = ck,
                                   !.pass.resumed = Honoured(ck, sig)]
    /\ UNCHANGED <<mergeVars, dd, sg, rq, cfg, api, disk>>

\* lines 290-292 (first page) and 313-316 (later pages)
FetchPage ==
    /\ hv.pc = "fetch"
    /\ LET cursor == Get(hv.base_params, "page[cursor]")
           js     == Upstream(api, hv.base_params)
           h      == [hist EXCEPT
                        !.reqNow = @ \cup {<<hv.passIdx, cursor>>},
                        !.pass.firstReq = IF hv.first THEN cursor ELSE @]
       IN  \E script \in FetchScripts :
              IF FetchSucceeds(script)
              THEN /\ hist' = h
                   /\ hv' = IF ~hv.first /\ js.data = <<>>
                            THEN \* "if not items: break"
                                 [hv EXCEPT !.pc = "passdone", !.items = <<>>]
                            ELSE [hv EXCEPT
                                    !.pc = IF js.data = <<>> THEN "save" ELSE "yield",
                                    !.items = js.data,
                                    !.nxt = js.next]
              ELSE Dies([h EXCEPT !.failure = "fetch"])
    /\ UNCHANGED <<mergeVars, dd, sg, rq, cfg, api, disk>>

\* one turn of "for item in streamer" (lines 409-429)
YieldItem ==
    /\ hv.pc = "yield"
    /\ hv.items # <<>>
    /\ LET row   == OneRowWide(Head(hv.items), hv.passIdx)
           buf   == hv.buffer_rows \o row
           flush == FlushDue(buf, cfg.incremental_every)
           write == flush /\ Truthy(cfg.incremental_save_dir)
       IN  /\ hv' = [hv EXCEPT
                       !.items = Tail(@),
                       !.pc = IF Tail(hv.items) = <<>> THEN "save" ELSE "yield",
                       !.buffer_rows = IF flush THEN <<>> ELSE buf,
                       !.chunk_idx_global = IF write THEN @ + 1 ELSE @]
           /\ disk' = IF write
                      THEN [disk EXCEPT
                              !.shards = ToParquet(@, hv.chunk_idx_global, buf)]
                      ELSE disk
           /\ hist' = [hist EXCEPT
                         !.pass.passRows = @ + Len(row),
                         !.pass.peak = IF Len(buf) > @ THEN Len(buf) ELSE @,
                         !.pass.passShards = IF write THEN Append(@, Len(buf)) ELSE @,
                         !.written = IF write /\ hv.chunk_idx_global >= @
                                     THEN hv.chunk_idx_global + 1 ELSE @,
                         !.rewrote = @ \/ (write /\ hv.chunk_idx_global < hist.written)]
    /\ UNCHANGED <<mergeVars, dd, sg, rq, cfg, api>>

\* how a _save_checkpoint call can go: "mkdir_fail" is os.makedirs raising,
\* which happens before the try block
SaveOutcomes == {"ok", "open_fail", "write_fail", "mkdir_fail"}

\* lines 303-309 / 321-326, then the loop test and line 313
SaveCheckpoint ==
    /\ hv.pc = "save"
    /\ LET next_cursor == IF hv.nxt # NoLink THEN ParseNextCursor(hv.nxt) ELSE None
       IN  \E outcome \in SaveOutcomes :
              LET h == [hist EXCEPT
                          !.faulty = @ \/ outcome # "ok",
                          !.pass.saveOutcome = outcome,
                          !.pass.savedCursor = next_cursor]
              IN  IF outcome = "mkdir_fail"
                  THEN Dies([h EXCEPT !.failure = "checkpoint"]) /\ UNCHANGED disk
                  ELSE /\ hist' = h
                       /\ disk' = [disk EXCEPT
                                     !.ckpt = WriteCheckpoint(@, hv.ckpt_path, hv.sig,
                                                              next_cursor, outcome)]
                       /\ hv' = IF Truthy(next_cursor)
                                THEN [hv EXCEPT
                                        !.pc = "fetch",
                                        !.first = FALSE,
                                        !.next_cursor = next_cursor,
                                        !.base_params =
                                            SetValue(@, "page[cursor]", next_cursor)]
                                ELSE [hv EXCEPT !.pc = "passdone",
                                                !.next_cursor = next_cursor]
    /\ UNCHANGED <<mergeVars, dd, sg, rq, cfg, api>>

\* lines 431-446, then the next iteration of the two for loops
EndPass ==
    /\ hv.pc = "passdone"
    /\ LET rest  == hv.buffer_rows
           write == rest # <<>> /\ Truthy(cfg.incremental_save_dir)
       IN  /\ hv' = [hv EXCEPT
                       !.pc = IF hv.passIdx < Len(PassList(cfg)) THEN "pass" ELSE "final",
                       !.passIdx = IF hv.passIdx < Len(PassList(cfg)) THEN @ + 1 ELSE @,
                       !.chunk_idx_global = IF write THEN @ + 1 ELSE @,
                       !.all_rows = @ \o rest]
           /\ disk' = IF write
                      THEN [disk EXCEPT
                              !.shards = ToParquet(@, hv.chunk_idx_global, rest)]
                      ELSE disk
           /\ hist' = [hist EXCEPT
                         !.pass.passEnded = TRUE,
                         !.ended = @ \cup {hv.passIdx},
                         !.pass.passShards = IF write THEN Append(@, Len(rest)) ELSE @,
                         !.written = IF write /\ hv.chunk_idx_global >= @
                                     THEN hv.chunk_idx_global + 1 ELSE @,
                         !.rewrote = @ \/ (write /\ hv.chunk_idx_global < hist.written)]
    /\ UNCHANGED <<mergeVars, dd, sg, rq, cfg, api>>

\* lines 448-499: the invocation ends; its result is not returned
Finish ==
    /\ hv.pc = "final"
    /\ hv' = HvDone
    /\ hist' = [hist EXCEPT !.end = "done", !.endPass = 0,
                            !.pass = PassHistStart]
    /\ UNCHANGED <<mergeVars, dd, sg, rq, cfg, api, disk>>

\* the process is terminated from outside, between any two steps
Crash ==
    /\ Running
    /\ hv' = HvDead
    /\ hist' = [hist EXCEPT !.end = "crash", !.endPass = hv.passIdx,
                            !.pass = PassHistStart]
    /\ UNCHANGED <<mergeVars, dd, sg, rq, cfg, api, disk>>

\* the operator invokes the harvest again, with the same arguments or with
\* another start date, over the same checkpoint and shard directories
Rerun ==
    /\ ~Running
    /\ hist.run < MaxRuns
    /\ \E d \in Dates :
          /\ cfg' = [cfg EXCEPT !.date_start = d]
          /\ hist' = [hist EXCEPT
                        !.run = @ + 1,
                        !.sameCfg = @ /\ d = cfg.date_start,
                        !.end = "none",
                        !.endPass = 0,
                        !.prevEnd = hist.end,
                        !.prevEndPass = hist.endPass,
                        !.reqPrev = hist.reqNow,
                        !.reqNow = {},
                        !.failure = "none",
                        !.ended = {},
                        !.failDisk = HistStart.failDisk,
                        !.pass = PassHistStart]
    /\ hv' = HvStart
    /\ UNCHANGED <<mergeVars, dd, sg, rq, api, disk>>

\* the operator deletes the shard files of a finished harvest
DeleteShards ==
    /\ hv.pc = "done"
    /\ disk.shards # <<>>
    /\ disk' = [disk EXCEPT !.shards = <<>>]
    /\ hist' = [hist EXCEPT !.deleted = TRUE]
    /\ UNCHANGED <<mergeVars, dd, sg, rq, cfg, api, hv>>

(***************************************************************************)
(* The final deduplication (lines 460-471).  A row of df_final holds the   *)
(* columns the code reads: doi, provider_id, alternate_ids_json and the    *)
(* three dates, which _norm_date left as ISO dates or None.  The frame is  *)
(* the sequence of its rows; a row is named by its position in it, the     *)
(* index label it keeps through sort_values and drop_duplicates.           *)
(***************************************************************************)
MaxRows == 2

\* the dates in ascending string order
DateOrder == << "2000-01-01", "2000-06-01" >>

DateCode(v) == CHOOSE i \in 1..Len(DateOrder) : DateOrder[i] = v

\* the rows of identifier "x", and a poor and a rich row of identifier "y"
DfRows ==
    { [doi |-> "x", provider_id |-> p, alternate_ids_json |-> a,
       registered |-> r, updated |-> u, created |-> c] :
      p \in {None, "arxiv"}, a \in {None, "[]"},
      r \in {None} \cup Range(DateOrder), u \in {None, DateOrder[1]},
      c \in {None, DateOrder[1]} }
    \cup
    { [doi |-> "y", provider_id |-> p, alternate_ids_json |-> None,
       registered |-> DateOrder[1], updated |-> None, created |-> None] :
      p \in {None, "arxiv"} }

Frames == UNION { [1..n -> DfRows] : n \in 0..MaxRows }

\* s.notna().astype(int)
NotNa(v) == IF v = None THEN 0 ELSE 1

\* the _rich column
Rich(row) == NotNa(row.provider_id) + NotNa(row.alternate_ids_json)

\* mutant of RichOrder: the _rich column sorted ascending
RichOrderAscending(a, b) == a < b

\* ascending=False for _rich: the larger value sorts first
RichOrder(a, b) == a > b

\* ascending=True with na_position="last": a present value sorts before a
\* missing one, present values in ascending order
DateBefore(u, v) ==
    \/ u # None /\ v = None
    \/ u # None /\ v # None /\ DateCode(u) < DateCode(v)

\* the order of sort_values(["_rich", "registered", "updated", "created"]) on
\* two rows: the first column on which they differ decides
SortsBefore(a, b) ==
    \/ RichOrder(Rich(a), Rich(b))
    \/ /\ Rich(a) = Rich(b)
       /\ \/ DateBefore(a.registered, b.registered)
          \/ /\ a.registered = b.registered
             /\ \/ DateBefore(a.updated, b.updated)
                \/ /\ a.updated = b.updated
                   /\ DateBefore(a.created, b.created)

\* sort_values: the index labels in sorted order; rows equal on every sort
\* column keep their order in the frame (the multi-column sort is stable)
SortValues(df) ==
    LET Ahead(i) == { j \in 1..Len(df) :
                        \/ SortsBefore(df[j], df[i])
                        \/ ~SortsBefore(df[i], df[j]) /\ j < i }
    IN  [k \in 1..Len(df) |->
            CHOOSE i \in 1..Len(df) : Cardinality(Ahead(i)) = k - 1]

\* drop_duplicates(subset=["doi"], keep="first") over the sorted labels
DropDuplicates(df, order) ==
    LET first(k) == \A m \in 1..(k - 1) : df[order[m]].doi # df[order[k]].doi
        ks == SelectSeq([k \in 1..Len(order) |-> k], first)
    IN  [n \in 1..Len(ks) |-> order[ks[n]]]

DdIdle == [kind |-> "idle", df |-> <<>>, kept |-> <<>>]

\* "if not df_final.empty": sort, then drop the duplicates
Deduplicate ==
    /\ dd.kind = "drawn"
    /\ dd' = [dd EXCEPT !.kind = "done",
                        !.kept = IF dd.df = <<>> THEN <<>>
                                 ELSE DropDuplicates(dd.df, SortValues(dd.df))]
    /\ UNCHANGED <<sg, rq, cfg, api, disk, hv, hist, mergeVars>>

(***************************************************************************)
(* merge_parquets.py.  A path is the sequence of its components; a parent  *)
(* directory as the caller writes it may hold "." components, which        *)
(* os.path.normpath removes.  The file system is the list of its parquet   *)
(* files, in the order a directory scan yields them.                       *)
(***************************************************************************)
\* _norm: os.path.normpath(os.path.expanduser(p))
Norm(p) == SelectSeq(p, LAMBDA c : c # ".")

IsPrefix(d, p) == Len(d) <= Len(p) /\ SubSeq(p, 1, Len(d)) = d

FileA == <<"r", "a.parquet">>

FileB == <<"r", "s", "b.parquet">>

FileC == <<"q", "c.parquet">>

AllFiles == <<FileA, FileB, FileC>>

\* the parents a caller may pass: two roots, a nested directory, a root
\* written with a "." component, a directory that does not exist
RawParents == { <<"r">>, <<"r", "s">>, <<"q">>, <<"r", ".">>, <<"m">> }

MaxParents == 2

ParentLists == UNION { [1..n -> RawParents] : n \in 0..MaxParents }

\* os.path.exists(parent)
PathExists(listing, p) == \E i \in 1..Len(listing) : IsPrefix(p, listing[i])

\* name_contains in fname, for the names and substrings of the model
Contains(fname, sub) == sub = "" \/ (sub = "b." /\ fname = "b.parquet")

RECURSIVE FirstOccurrences(_, _)
FirstOccurrences(seq, seen) ==
    IF seq = <<>> THEN <<>>
    ELSE IF Head(seq) \in seen THEN FirstOccurrences(Tail(seq), seen)
    ELSE <<Head(seq)>> \o FirstOccurrences(Tail(seq), seen \cup {Head(seq)})

\* lines 58-64: the parent, then its immediate subdirectories
Folders(listing, parent, one_level_deep) ==
    LET below == SelectSeq(listing,
                           LAMBDA f : IsPrefix(parent, f) /\ Len(f) > Len(parent) + 1)
        subs  == [i \in 1..Len(below) |-> SubSeq(below[i], 1, Len(parent) + 1)]
    IN  <<parent>> \o (IF one_level_deep THEN FirstOccurrences(subs, {}) ELSE <<>>)

\* glob.iglob(os.path.join(folder, "**", "*.parquet"), recursive=True)
Glob(listing, folder) ==
    LET hit == SelectSeq(listing, LAMBDA f : IsPrefix(folder, f) /\ Len(f) > Len(folder))
    IN  [i \in 1..Len(hit) |->
            [folder |-> folder, filepath |-> Norm(hit[i]), filename |-> hit[i][Len(hit[i])]]]

RECURSIVE GlobAll(_, _)
GlobAll(listing, folders) ==
    IF folders = <<>> THEN <<>>
    ELSE Glob(listing, Head(folders)) \o GlobAll(listing, Tail(folders))

\* lines 66-73: "if fpath in seen: continue; seen.add(fpath)"
RECURSIVE SkipSeen(_, _)
SkipSeen(hits, seen) ==
    IF hits = <<>> THEN <<>>
    ELSE IF Head(hits).filepath \in seen THEN SkipSeen(Tail(hits), seen)
    ELSE <<Head(hits)>> \o SkipSeen(Tail(hits), seen \cup {Head(hits).filepath})

\* the body of "for parent in parents" (lines 53-83); seen is created anew
\* for every parent (line 66)
DiscoverParent(listing, raw, name_contains, one_level_deep) ==
    LET parent == Norm(raw)
    IN  IF ~PathExists(listing, parent) THEN <<>>
        ELSE SelectSeq(SkipSeen(GlobAll(listing, Folders(listing, parent, one_level_deep)), {}),
                       LAMBDA r : Contains(r.filename, name_contains))

RECURSIVE DiscoverParquetFiles(_, _, _, _)
DiscoverParquetFiles(listing, parents, name_contains, one_level_deep) ==
    IF parents = <<>> THEN <<>>
    ELSE DiscoverParent(listing, Head(parents), name_contains, one_level_deep)
         \o DiscoverParquetFiles(listing, Tail(parents), name_contains, one_level_deep)

(***************************************************************************)
(* Discovery machine: a file system and the arguments are drawn at Init;   *)
(* Discover makes the call.                                                *)
(***************************************************************************)
Listings == { SelectSeq(AllFiles, LAMBDA f : f \in F) : F \in SUBSET {FileA, FileB, FileC} }

DvIdle == [kind |-> "idle", listing |-> <<>>, parents |-> <<>>, name_contains |-> "",
           one_level_deep |-> TRUE, records |-> <<>>]

Discover ==
    /\ dv.kind = "drawn"
    /\ dv' = [dv EXCEPT
                !.kind = "done",
                !.records = DiscoverParquetFiles(dv.listing, dv.parents,
                                                 dv.name_contains, dv.one_level_deep)]
    /\ UNCHANGED <<sg, rq, harvestVars, un, mg>>

(***************************************************************************)
(* Shard files.  A schema is the sequence of its fields <<name, type>>; a  *)
(* row is the sequence of its cells in the order of the schema, None for a *)
(* null cell, every other cell written as text.  A file's footer (schema)  *)
(* and its data may each be unreadable.                                    *)
(***************************************************************************)
\* a chunk whose provider_id is null in every row: pandas writes the
\* column with the null type
ShardPlain ==
    [schemaOk |-> TRUE, dataOk |-> TRUE,
     schema |-> << <<"doi", "string">>, <<"provider_id", "null">> >>,
     rows |-> << <<"x", None>> >>]

ShardRich ==
    [schemaOk |-> TRUE, dataOk |-> TRUE,
     schema |-> << <<"doi", "string">>, <<"provider_id", "string">> >>,
     rows |-> << <<"x", "v">> >>]

\* other columns in another order; score stored as an integer
ShardScore ==
    [schemaOk |-> TRUE, dataOk |-> TRUE,
     schema |-> << <<"score", "int64">>, <<"doi", "string">> >>,
     rows |-> << <<"1", "y">>, <<"2", "z">> >>]

\* provider_id stored as an integer
ShardNumeric ==
    [schemaOk |-> TRUE, dataOk |-> TRUE,
     schema |-> << <<"doi", "string">>, <<"provider_id", "int64">> >>,
     rows |-> << <<"w", "7">> >>]

\* not a parquet file: pq.ParquetFile(p) and pq.read_table(p) raise
ShardCorrupt == [schemaOk |-> FALSE, dataOk |-> FALSE, schema |-> <<>>, rows |-> <<>>]

\* the footer is readable, the row data is not: pq.read_table(p) raises
ShardTruncated ==
    [schemaOk |-> TRUE, dataOk |-> FALSE,
     schema |-> << <<"doi", "string">>, <<"provider_id", "string">> >>,
     rows |-> <<>>]

\* score stored as text that is not a number
ShardScoreText ==
    [schemaOk |-> TRUE, dataOk |-> TRUE,
     schema |-> << <<"doi", "string">>, <<"score", "string">> >>,
     rows |-> << <<"u", "n/a">> >>]

ShardKinds ==
    {ShardPlain, ShardRich, ShardScore, ShardNumeric, ShardScoreText,
     ShardCorrupt, ShardTruncated}

FieldNames(schema) == {schema[i][1] : i \in 1..Len(schema)}

FieldType(schema, name) == schema[CHOOSE i \in 1..Len(schema) : schema[i][1] = name][2]

\* mutant of AlignScore: the score field keeps the type of the shard
AlignScoreKeeps(schema) == schema

\* lines 93-100: the score field becomes float64
AlignScore(schema) ==
    [i \in 1..Len(schema) |->
        IF schema[i][1] = "score" THEN <<"score", "double">> ELSE schema[i]]

\* how pyarrow merges the types of two fields of one name: equal types,
\* or the null type with any type; other pairs do not merge
MergeType(a, b) ==
    IF a = b THEN a
    ELSE IF a = "null" THEN b
    ELSE IF b = "null" THEN a
    ELSE "conflict"

\* one field merged into the fields gathered so far: merged by name in
\* place, or appended
AddField(fields, f) ==
    IF f[1] \in FieldNames(fields)
    THEN [i \in 1..Len(fields) |->
            IF fields[i][1] = f[1] THEN <<f[1], MergeType(fields[i][2], f[2])>>
            ELSE fields[i]]
    ELSE Append(fields, f)

RECURSIVE AddSchema(_, _)
AddSchema(fields, schema) ==
    IF schema = <<>> THEN fields
    ELSE AddSchema(AddField(fields, Head(schema)), Tail(schema))

RECURSIVE AddSchemas(_, _)
AddSchemas(fields, schemas) ==
    IF schemas = <<>> THEN fields
    ELSE AddSchemas(AddSchema(fields, Head(schemas)), Tail(schemas))

\* pa.unify_schemas(schemas): raises when two types do not merge
UnifySchemas(schemas) ==
    LET fields == AddSchemas(<<>>, schemas)
    IN  IF \E i \in 1..Len(fields) : fields[i][2] = "conflict"
        THEN [raised |-> TRUE, schema |-> <<>>]
        ELSE [raised |-> FALSE, schema |-> fields]

\* mutant of CollectUnifiedSchema: no try/except around the schema read, an
\* unreadable footer raises
CollectUnifiedSchemaUnguarded(shards) ==
    IF \E i \in 1..Len(shards) : ~shards[i].schemaOk
    THEN [raised |-> TRUE, schema |-> <<>>]
    ELSE IF shards = <<>> THEN [raised |-> FALSE, schema |-> <<>>]
    ELSE UnifySchemas([i \in 1..Len(shards) |-> AlignScore(shards[i].schema)])

\* _collect_unified_schema over the shards at the paths, in order
CollectUnifiedSchema(shards) ==
    LET readable == SelectSeq(shards, LAMBDA sh : sh.schemaOk)
        schemas  == [i \in 1..Len(readable) |-> AlignScore(readable[i].schema)]
    IN  IF schemas = <<>> THEN [raised |-> FALSE, schema |-> <<>>]
        ELSE UnifySchemas(schemas)

(***************************************************************************)
(* Schema machine: a list of shards is drawn at Init; UnifyPermuted        *)
(* unifies the list and a permutation of it, AlignShards then reads each   *)
(* shard of the list and aligns it to the unified schema.                  *)
(***************************************************************************)
MaxShards == 3

ShardLists == UNION { [1..n -> ShardKinds] : n \in 0..MaxShards }

UnIdle == [kind |-> "idle", list |-> <<>>, perm |-> <<>>,
           unified |-> [raised |-> FALSE, schema |-> <<>>],
           unifiedPerm |-> [raised |-> FALSE, schema |-> <<>>],
           aligned |-> <<>>]

UnifyPermuted ==
    /\ un.kind = "drawn"
    /\ \E f \in [1..Len(un.list) -> 1..Len(un.list)] :
          /\ {f[i] : i \in 1..Len(un.list)} = 1..Len(un.list)
          /\ LET perm == [i \in 1..Len(un.list) |-> un.list[f[i]]]
             IN  un' = [un EXCEPT !.kind = "done",
                                  !.perm = perm,
                                  !.unified = CollectUnifiedSchema(un.list),
                                  !.unifiedPerm = CollectUnifiedSchema(perm)]
    /\ UNCHANGED <<sg, rq, harvestVars, dv, mg>>

(***************************************************************************)
(* merge_parquets.  mg.pc is the place in the function:                    *)
(*   "start"     entry: output directory, discovery, unified schema        *)
(*   "open"      pq.ParquetWriter(out_parquet_tmp, ...) (lines 156-160)    *)
(*   "copy"      the loop over all_paths (lines 162-170), at index mg.i    *)
(*   "close"     the finally clause (lines 171-173)                        *)
(*   "finalize"  the rename and the report (lines 176-210)                 *)
(*   "done"      the report was returned                                   *)
(*   "raised"    an exception left the function; mg.error says which       *)
(* mg.tmp and mg.out are the files at out_parquet_tmp and out_parquet.     *)
(* write_pkl_too keeps its default, False.  mg.faults and mg.appended are  *)
(* history: the I/O failures met and the rows the writer accepted.         *)
(***************************************************************************)
NoOutput == [exists |-> FALSE, schema |-> <<>>, rows |-> <<>>]

NoReport == [parquet |-> None, rows_written |-> 0, inputs |-> <<>>]

MgIdle ==
    [pc |-> "idle", listing |-> <<>>, content |-> <<>>, parents |-> <<>>,
     one_level_deep |-> TRUE, all_paths |-> <<>>, unified_schema |-> <<>>,
     i |-> 1, writer |-> "none", parquet_ok |-> TRUE,
     tmp |-> NoOutput, out |-> NoOutput, total_rows_written |-> 0,
     report |-> NoReport, error |-> "none", faults |-> {}, appended |-> 0]

\* the parent lists a merge is called with: one root, a nested directory,
\* both (overlapping), a missing directory alone and with a root, none
MergeParents ==
    { << <<"r">> >>, << <<"r", "s">> >>, << <<"r">>, <<"r", "s">> >>,
      << <<"m">> >>, << <<"m">>, <<"r">> >>, <<>> }

MergeListings == { <<>>, <<FileA>>, <<FileB>>, <<FileA, FileB>>, <<FileB, FileA>> }

\* _align_table_to_schema: the columns of the unified schema, in its order;
\* a column the table lacks is all null, a column of another type is cast
\* (null to any type, int64 to double), which keeps the cell
AlignRow(row, schema, unified) ==
    [k \in 1..Len(unified) |->
        IF unified[k][1] \in FieldNames(schema)
        THEN row[CHOOSE j \in 1..Len(schema) : schema[j][1] = unified[k][1]]
        ELSE None]

AlignTableToSchema(shard, unified) ==
    [r \in 1..Len(shard.rows) |-> AlignRow(shard.rows[r], AlignScore(shard.schema), unified)]

\* the text cells that parse as numbers
NumericText == {"1", "2", "7"}

\* pa.compute.cast of a cell: to its own type, from the null type, from
\* int64 to double, and from a string to double when the text is a number
Castable(cell, from, to) ==
    \/ from = to
    \/ from = "null"
    \/ cell = None
    \/ from = "int64" /\ to = "double"
    \/ from = "string" /\ to = "double" /\ cell \in NumericText

\* a failed cast is passed over (lines 112-115) and the column keeps its
\* type; pa.table(cols, schema=schema) then raises on the column
AlignRaises(shard, unified) ==
    \E k \in 1..Len(unified) : \E j \in 1..Len(shard.schema) :
        /\ shard.schema[j][1] = unified[k][1]
        /\ \E r \in 1..Len(shard.rows) :
              ~Castable(shard.rows[r][j], shard.schema[j][2], unified[k][2])

\* lines 164-165 on every shard of the list: pq.read_table, then
\* _align_table_to_schema against the unified schema
AlignShards ==
    /\ un.kind = "done"
    /\ ~un.unified.raised
    /\ un' = [un EXCEPT
                !.kind = "aligned",
                !.aligned =
                    [i \in 1..Len(un.list) |->
                        IF ~un.list[i].dataOk \/ AlignRaises(un.list[i], un.unified.schema)
                        THEN [raised |-> TRUE, rows |-> <<>>]
                        ELSE [raised |-> FALSE,
                              rows |-> AlignTableToSchema(un.list[i], un.unified.schema)]]]
    /\ UNCHANGED <<sg, rq, harvestVars, dv, mg>>

ShardAt(path) == mg.content[path]

\* lines 130-153
MergeStart ==
    /\ mg.pc = "start"
    /\ \/ \* _ensure_dir(output_dir): os.makedirs raises
          mg' = [mg EXCEPT !.pc = "raised", !.error = "output_dir"]
       \/ LET recs  == DiscoverParquetFiles(mg.listing, mg.parents, "", mg.one_level_deep)
              paths == [k \in 1..Len(recs) |-> recs[k].filepath]
              u     == CollectUnifiedSchema([k \in 1..Len(paths) |-> ShardAt(paths[k])])
          IN  mg' = IF recs = <<>>
                    THEN [mg EXCEPT !.pc = "raised", !.error = "no_files"]
                    ELSE IF u.raised
                    THEN [mg EXCEPT !.pc = "raised", !.error = "unify",
                                    !.all_paths = paths]
                    ELSE IF Len(u.schema) = 0
                    THEN [mg EXCEPT !.pc = "raised", !.error = "no_schema",
                                    !.all_paths = paths]
                    ELSE [mg EXCEPT !.pc = "open", !.all_paths = paths,
                                    !.unified_schema = u.schema]
    /\ UNCHANGED <<sg, rq, harvestVars, dv, un>>

\* lines 156-160: the writer opens, or the constructor raises before or
\* after it created the file
MergeOpenWriter ==
    /\ mg.pc = "open"
    /\ \E outcome \in {"ok", "fail", "fail_file_created"} :
          mg' = [mg EXCEPT
                   !.pc = "copy",
                   !.i = 1,
                   !.writer = IF outcome = "ok" THEN "open" ELSE "none",
                   !.parquet_ok = (outcome = "ok"),
                   !.tmp = IF outcome = "fail" THEN NoOutput
                           ELSE [exists |-> TRUE, schema |-> mg.unified_schema,
                                 rows |-> <<>>],
                   !.faults = IF outcome = "ok" THEN @ ELSE @ \cup {"open"}]
    /\ UNCHANGED <<sg, rq, harvestVars, dv, un>>

\* one turn of "for p in all_paths" (lines 162-170)
MergeCopyShard ==
    /\ mg.pc = "copy"
    /\ mg.i <= Len(mg.all_paths)
    /\ LET shard == ShardAt(mg.all_paths[mg.i])
           table == AlignTableToSchema(shard, mg.unified_schema)
           next  == [mg EXCEPT !.i = @ + 1]
       IN  IF ~shard.dataOk \/ AlignRaises(shard, mg.unified_schema)
           THEN \* pq.read_table or the alignment raises: the shard is skipped
                mg' = next
           ELSE IF mg.parquet_ok /\ mg.writer # "none"
           THEN \/ mg' = [next EXCEPT !.tmp.rows = @ \o table,
                                      !.appended = @ + Len(table),
                                      !.total_rows_written = @ + Len(table)]
                \/ \* writer.write_table raises: caught as an unreadable shard
                   mg' = [next EXCEPT !.faults = @ \cup {"write"}]
           ELSE mg' = [next EXCEPT !.total_rows_written = @ + Len(table)]
    /\ UNCHANGED <<sg, rq, harvestVars, dv, un>>

\* the end of the loop
MergeCopyDone ==
    /\ mg.pc = "copy"
    /\ mg.i > Len(mg.all_paths)
    /\ mg' = [mg EXCEPT !.pc = "close"]
    /\ UNCHANGED <<sg, rq, harvestVars, dv, un>>

\* lines 171-173: writer.close() is not guarded
MergeCloseWriter ==
    /\ mg.pc = "close"
    /\ IF mg.writer = "none"
       THEN mg' = [mg EXCEPT !.pc = "finalize"]
       ELSE \/ mg' = [mg EXCEPT !.pc = "finalize", !.writer = "closed"]
            \/ mg' = [mg EXCEPT !.pc = "raised", !.error = "close",
                                !.faults = @ \cup {"close"}]
    /\ UNCHANGED <<sg, rq, harvestVars, dv, un>>

\* lines 176-210
MergeFinalize ==
    /\ mg.pc = "finalize"
    /\ \E replace \in {"ok", "fail_removed", "fail_kept"} :
          LET try   == mg.parquet_ok /\ mg.tmp.exists
              ok    == IF try THEN replace = "ok" ELSE mg.parquet_ok
              after == IF ~try THEN mg
                       ELSE IF replace = "ok"
                       THEN [mg EXCEPT !.out = mg.tmp, !.tmp = NoOutput]
                       ELSE IF replace = "fail_removed"
                       THEN [mg EXCEPT !.tmp = NoOutput, !.faults = @ \cup {"replace"}]
                       ELSE [mg EXCEPT !.faults = @ \cup {"replace"}]
          IN  /\ ~try => replace = "ok"
              /\ mg' = [after EXCEPT
                          !.pc = "done",
                          !.parquet_ok = ok,
                          !.report = [parquet |-> IF ok THEN "out_parquet" ELSE None,
                                      rows_written |-> mg.total_rows_written,
                                      inputs |-> mg.all_paths]]
    /\ UNCHANGED <<sg, rq, harvestVars, dv, un>>

MergeIdle == dv = DvIdle /\ un = UnIdle /\ mg = MgIdle

(***************************************************************************)
(* Specifications                                                          *)
(***************************************************************************)
HarvestIdle ==
    /\ cfg = CHOOSE c \in Configs : TRUE
    /\ api = ChainNoNext
    /\ disk = [ckpt |-> <<>>, shards |-> <<>>]
    /\ hv = HvDone
    /\ hist = HistStart
    /\ dd = DdIdle

\* the first invocation: any configuration with the first start date; the
\* invocations of several passes run against the one-page result set
Init ==
    /\ sg = SgIdle
    /\ rq = RqIdle
    /\ cfg \in {c \in Configs : c.date_start = FirstDate}
    /\ api \in {a \in Chains : Len(PassList(cfg)) = 1 \/ a = ChainOnePage}
    /\ disk = [ckpt |-> <<>>, shards |-> <<>>]
    /\ hv = HvStart
    /\ hist = HistStart
    /\ dd = DdIdle
    /\ MergeIdle

Next ==
    \/ StartPass
    \/ StreamStart
    \/ FetchPage
    \/ YieldItem
    \/ SaveCheckpoint
    \/ EndPass
    \/ Finish
    \/ Crash
    \/ Rerun
    \/ DeleteShards

Spec == Init /\ [][Next]_vars

InitSig ==
    /\ \E p \in ParamDicts : sg = [SgIdle EXCEPT !.p = p, !.q = p, !.kind = "drawn"]
    /\ rq = RqIdle
    /\ HarvestIdle
    /\ MergeIdle

NextSig == SigPermute \/ SigChange \/ SigVary

SpecSig == InitSig /\ [][NextSig]_vars

InitFetch ==
    /\ sg = SgIdle
    /\ rq = RqStart
    /\ HarvestIdle
    /\ MergeIdle

NextFetch ==
    \/ FetchOk
    \/ FetchRetryableStatus
    \/ FetchOtherStatus
    \/ FetchNetworkError
    \/ FetchExhausted

SpecFetch == InitFetch /\ [][NextFetch]_vars

\* one step of a running invocation that nothing stops from outside
HarvestStep ==
    \/ StartPass
    \/ StreamStart
    \/ FetchPage
    \/ YieldItem
    \/ SaveCheckpoint
    \/ EndPass
    \/ Finish

\* a behaviour is one _request_get call, or one harvest invocation that is
\* not terminated from outside; the interpreter keeps executing: a call or
\* an invocation that can take a step takes one
InitLive == InitFetch \/ Init

NextLive == NextFetch \/ HarvestStep

SpecLive ==
    InitLive /\ [][NextLive]_vars /\ WF_vars(NextFetch) /\ WF_vars(HarvestStep)

InitDedup ==
    /\ sg = SgIdle
    /\ rq = RqIdle
    /\ cfg = CHOOSE c \in Configs : TRUE
    /\ api = ChainNoNext
    /\ disk = [ckpt |-> <<>>, shards |-> <<>>]
    /\ hv = HvDone
    /\ hist = HistStart
    /\ MergeIdle
    /\ \E df \in Frames : dd = [DdIdle EXCEPT !.kind = "drawn", !.df = df]

NextDedup == Deduplicate

SpecDedup == InitDedup /\ [][NextDedup]_vars

InitDiscover ==
    /\ sg = SgIdle
    /\ rq = RqIdle
    /\ HarvestIdle
    /\ un = UnIdle
    /\ mg = MgIdle
    /\ \E listing \in Listings, parents \in ParentLists,
          nc \in {"", "b."}, old \in BOOLEAN :
          dv = [DvIdle EXCEPT !.kind = "drawn", !.listing = listing,
                              !.parents = parents, !.name_contains = nc,
                              !.one_level_deep = old]

NextDiscover == Discover

SpecDiscover == InitDiscover /\ [][NextDiscover]_vars

InitUnify ==
    /\ sg = SgIdle
    /\ rq = RqIdle
    /\ HarvestIdle
    /\ dv = DvIdle
    /\ mg = MgIdle
    /\ \E list \in ShardLists : un = [UnIdle EXCEPT !.kind = "drawn", !.list = list]

NextUnify == UnifyPermuted \/ AlignShards

SpecUnify == InitUnify /\ [][NextUnify]_vars

InitMerge ==
    /\ sg = SgIdle
    /\ rq = RqIdle
    /\ HarvestIdle
    /\ dv = DvIdle
    /\ un = UnIdle
    /\ \E listing \in MergeListings, parents \in MergeParents, old \in BOOLEAN :
          \E content \in [{listing[k] : k \in 1..Len(listing)} -> ShardKinds] :
              mg = [MgIdle EXCEPT !.pc = "start", !.listing = listing,
                                  !.content = content, !.parents = parents,
                                  !.one_level_deep = old]

NextMerge ==
    \/ MergeStart
    \/ MergeOpenWriter
    \/ MergeCopyShard
    \/ MergeCopyDone
    \/ MergeCloseWriter
    \/ MergeFinalize

SpecMerge == InitMerge /\ [][NextMerge]_vars

(***************************************************************************)
(* Properties of the harvest (specification Spec)                          *)
(***************************************************************************)
ShardRows == UNION {Range(disk.shards[j]) : j \in 1..Len(disk.shards)}

\* the usable records of the result set, as the rows pass i makes of them
UsableRows(i) ==
    UNION { { <<i, item>> : item \in Range(api[c].data) \ {0} } : c \in DOMAIN api }

\* the cursor of a fresh start: the caller's start_cursor, or "1"
InitialCursor(c) == IF Truthy(c.start_cursor) THEN c.start_cursor ELSE "1"

\* every invocation so far had the same arguments and met no checkpoint
\* I/O failure
CleanReruns == hist.sameCfg /\ ~hist.faulty

(***************************************************************************)
(* C1: no page is lost across restarts: a pass interrupted at any point    *)
(* (killed, or a fatal fetch error) and rerun with the same arguments and  *)
(* directories until the invocation is done leaves every usable record of  *)
(* every page in at least one shard file.                                  *)
(***************************************************************************)
C1_NoPageLost ==
    (/\ hv.pc = "done"
     /\ CleanReruns
     /\ ~hist.deleted
     /\ Truthy(cfg.incremental_save_dir)
     /\ ~Truthy(cfg.start_cursor))
        => \A i \in 1..Len(PassList(cfg)) : UsableRows(i) \subseteq ShardRows

(***************************************************************************)
(* C2: bounded redundant work: after a pass was killed and rerun with the  *)
(* same arguments, every checkpoint save having succeeded, the rerun       *)
(* re-requests at most one page of that pass that had been requested       *)
(* before the crash.                                                       *)
(***************************************************************************)
C2_AtMostOnePageRefetched ==
    (/\ hist.run >= 2
     /\ hist.prevEnd = "crash"
     /\ CleanReruns)
        => Cardinality({r \in hist.reqNow \cap hist.reqPrev :
                            r[1] = hist.prevEndPass}) <= 1

(***************************************************************************)
(* C3: checkpoint before next fetch: when the request for page N+1 is      *)
(* about to be issued, _save_checkpoint has been called for page N with    *)
(* the pass's signature and page N's next cursor, the file holds exactly   *)
(* that when the write succeeded, and the cursor of the request is that    *)
(* next cursor, the one of page N's next link.                             *)
(***************************************************************************)
C3_CheckpointBeforeNextFetch ==
    (hv.pc = "fetch" /\ ~hv.first) =>
        LET cursor == Get(hv.base_params, "page[cursor]")
        IN  /\ hist.pass.saveOutcome \in {"ok", "open_fail", "write_fail"}
            /\ hist.pass.savedCursor = cursor
            /\ hv.nxt # NoLink
            /\ cursor = ParseNextCursor(hv.nxt)
            /\ hist.pass.saveOutcome = "ok" =>
                   CkptFile(hv.ckpt_path) =
                       [state |-> "ok", signature |-> hv.sig, next_cursor |-> cursor]

\* page 3 is about to be requested; the checkpoint of page 2 is on disk
C3_Witness ==
    /\ hv.pc = "fetch"
    /\ ~hv.first
    /\ Get(hv.base_params, "page[cursor]") = "3"
    /\ hist.pass.saveOutcome = "ok"
    /\ CkptFile(hv.ckpt_path).next_cursor = "3"

(***************************************************************************)
(* C4: a checkpoint whose stored signature differs from the pass's         *)
(* signature is never honoured, even when both signatures map to the same  *)
(* checkpoint path: the pass does not resume, and its first page request   *)
(* uses the initial cursor.                                                *)
(***************************************************************************)
InPass == hv.pc \in {"fetch", "yield", "save", "passdone"}

ForeignCheckpointLoaded ==
    /\ InPass
    /\ hist.pass.loaded.state = "ok"
    /\ ~DictEq(hist.pass.loaded.signature, hv.sig)

C4_MismatchedSignatureNotHonoured ==
    ForeignCheckpointLoaded =>
        /\ ~hist.pass.resumed
        /\ (hv.pc = "fetch" /\ hv.first) =>
               Get(hv.base_params, "page[cursor]") = InitialCursor(cfg)
        /\ hist.pass.firstReq # None => hist.pass.firstReq = InitialCursor(cfg)

\* a checkpoint saved under another signature, with a cursor, was found at
\* the pass's path, and the first page was requested with cursor "1"
C4_Witness ==
    /\ ForeignCheckpointLoaded
    /\ Truthy(hist.pass.loaded.next_cursor)
    /\ hist.pass.loaded.next_cursor # "1"
    /\ hist.pass.firstReq = "1"

(***************************************************************************)
(* C6: resume idempotence: after an invocation ran to DONE, a rerun with   *)
(* the same arguments and the checkpoint kept resumes from the saved       *)
(* cursor and issues no request with the initial cursor.                   *)
(***************************************************************************)
C6_RerunAfterDoneResumes ==
    (/\ hist.run >= 2
     /\ hist.prevEnd = "done"
     /\ CleanReruns
     /\ hist.pass.firstReq # None)
        => /\ hist.pass.resumed
           /\ hist.pass.firstReq # InitialCursor(cfg)

(***************************************************************************)
(* C7: shard files are write-once: every flush writes a chunk number       *)
(* greater than every chunk number written into the directory before, over *)
(* any sequence of flushes, passes and invocations.                        *)
(***************************************************************************)
C7_ShardsWriteOnce == ~hist.rewrote

(***************************************************************************)
(* C8: flush sizing: a pass that ran to its end having yielded n usable    *)
(* rows under threshold T wrote ceil(n/T) shards, all of T rows except     *)
(* that the last holds n - T*floor(n/T) when that is not zero; no shard is *)
(* empty, the sizes sum to n, and the buffer never holds more than T rows. *)
(***************************************************************************)
RECURSIVE SumSeq(_)
SumSeq(s) == IF s = <<>> THEN 0 ELSE Head(s) + SumSeq(Tail(s))

CeilDiv(n, t) == (n + t - 1) \div t

C8_FlushSizing ==
    LET T == cfg.incremental_every
        n == hist.pass.passRows
        s == hist.pass.passShards
    IN  /\ Len(hv.buffer_rows) <= T
        /\ hist.pass.peak <= T
        /\ (hist.pass.passEnded /\ Truthy(cfg.incremental_save_dir)) =>
              /\ Len(s) = CeilDiv(n, T)
              /\ \A i \in 1..Len(s) : s[i] >= 1 /\ (i < Len(s) => s[i] = T)
              /\ n % T # 0 => s[Len(s)] = n - T * (n \div T)
              /\ SumSeq(s) = n

\* five rows under threshold 2: shards of 2, 2 and 1 rows
C8_Witness ==
    /\ hist.pass.passEnded
    /\ cfg.incremental_every = 2
    /\ hist.pass.passRows = 5
    /\ hist.pass.passShards = <<2, 2, 1>>

(***************************************************************************)
(* C5: the signature is order-independent and value-sensitive: a           *)
(* permutation of the insertion order gives the same signature and the     *)
(* same digest, and changing the value of one filter-relevant key gives a  *)
(* different signature.                                                    *)
(***************************************************************************)
C5_SignatureOrderIndependentValueSensitive ==
    /\ sg.kind = "perm" => DictEq(sg.sigP, sg.sigQ) /\ sg.sigP = sg.sigQ /\ sg.hP = sg.hQ
    /\ (sg.kind = "chg" /\ sg.key \in Range(SortedKeys)) => ~DictEq(sg.sigP, sg.sigQ)

\* a dict of two filter keys inserted in the other order, and a changed query
C5_Witness ==
    \/ /\ sg.kind = "perm"
       /\ Len(sg.p) = 2
       /\ sg.q # sg.p
       /\ Len(sg.sigP) = 2
    \/ /\ sg.kind = "chg"
       /\ sg.key = "query"
       /\ Get(sg.p, "query") = "a"
       /\ Get(sg.q, "query") = "b"

(***************************************************************************)
(* C21: two parameter dicts that agree on resource-type-id, query, the six *)
(* from/until date keys and client-id, and differ in the page cursor, the  *)
(* page size or another key, have the same signature, the same digest and  *)
(* the same checkpoint path.                                               *)
(***************************************************************************)
FilterKeys ==
    { "resource-type-id", "query", "client-id",
      "from-registered-date", "until-registered-date",
      "from-created-date", "until-created-date",
      "from-updated-date", "until-updated-date" }

AgreeOnFilters(p, q) == \A k \in FilterKeys : GetOr(p, k) = GetOr(q, k)

C21_SignatureIgnoresPaging ==
    (sg.kind \in {"vary", "chg"} /\ sg.q # sg.p /\ AgreeOnFilters(sg.p, sg.q)) =>
        /\ sg.sigP = sg.sigQ
        /\ sg.hP = sg.hQ
        /\ CheckpointPath(sg.hP, GetOr(sg.p, "client-id"))
               = CheckpointPath(sg.hQ, GetOr(sg.q, "client-id"))

\* the same query at two page cursors; and a page size added to a client's
\* parameters
C21_Witness ==
    /\ sg.kind = "vary"
    /\ \/ /\ GetOr(sg.p, "query") = "a"
          /\ GetOr(sg.p, "page[cursor]") = "a"
          /\ GetOr(sg.q, "page[cursor]") = "b"
          /\ Len(sg.sigP) = 1
       \/ /\ GetOr(sg.p, "client-id") = "b"
          /\ ~HasKey(sg.p, "page[size]")
          /\ GetOr(sg.q, "page[size]") = "a"

(***************************************************************************)
(* C9: k consecutive transient failures (429/5xx status or network error)  *)
(* followed by 200, k below the attempt ceiling: the call returns the      *)
(* parsed response, no error, after exactly k delays, the i-th             *)
(* (i = 0..k-1) being base_sleep * 2^i.                                    *)
(***************************************************************************)
Transient(code) == code = NetErr \/ code \in RetryableStatus

TransientsThen200(resps) ==
    /\ Len(resps) >= 1
    /\ resps[Len(resps)] = 200
    /\ \A i \in 1..(Len(resps) - 1) : Transient(resps[i])

C9_TransientFailuresAbsorbed ==
    \A k \in 0..(Retries - 1) :
        (TransientsThen200(rq.resps) /\ Len(rq.resps) = k + 1) =>
            /\ rq.status = "returned"
            /\ Len(rq.delays) = k
            /\ \A i \in 0..(k - 1) : rq.delays[i + 1] = BaseSleepMs * (2 ^ i)

\* three 503s, then 200
C9_Witness ==
    /\ rq.resps = <<503, 503, 503, 200>>
    /\ rq.status = "returned"
    /\ rq.delays = <<500, 1000, 2000>>

(***************************************************************************)
(* C10: if every one of the Retries attempts ends in a transient failure,  *)
(* the call ends by raising an error; it never returns normally without a  *)
(* parsed response.                                                        *)
(***************************************************************************)
C10_ExhaustionRaises ==
    (/\ rq.status \in {"returned", "raised", "none"}
     /\ Len(rq.resps) = Retries
     /\ \A i \in 1..Retries : Transient(rq.resps[i]))
        => rq.status = "raised"

(***************************************************************************)
(* C11: a non-2xx status other than 429/500/502/503/504 is fatal on the    *)
(* attempt that receives it: the call raises there, with no further        *)
(* request and no backoff delay for it.                                    *)
(***************************************************************************)
NonRetryableStatus(code) == RaisesForStatus(code) /\ code \notin RetryableStatus

C11_NonRetryableStatusFatal ==
    \A i \in 1..Len(rq.resps) :
        NonRetryableStatus(rq.resps[i]) =>
            /\ rq.status = "raised"
            /\ i = Len(rq.resps)
            /\ Len(rq.delays) <= i - 1

(***************************************************************************)
(* C12: passes run one after the other and the invocation fails fast: a    *)
(* pass issues requests only after every earlier pass ended, after a fatal *)
(* fetch error no request of a later pass is issued in the invocation, and *)
(* the shard and checkpoint files are as they were when the error struck.  *)
(***************************************************************************)
C12_SequentialFailFast ==
    /\ \A r \in hist.reqNow :
          /\ r[1] <= hv.passIdx \/ ~Running
          /\ \A j \in 1..(r[1] - 1) : j \in hist.ended
    /\ (hist.end = "fail" /\ hist.failure = "fetch") =>
          /\ ~Running
          /\ \A r \in hist.reqNow : r[1] <= hist.endPass
          /\ disk = hist.failDisk

\* the first of two passes failed on a fetch, over files of an earlier run
C12_Witness ==
    /\ hist.end = "fail"
    /\ hist.failure = "fetch"
    /\ Len(PassList(cfg)) = 2
    /\ hist.endPass = 1
    /\ hist.reqNow # {}
    /\ DOMAIN disk.ckpt # {}
    /\ disk.shards # <<>>

(***************************************************************************)
(* C17: checkpoint I/O failures never abort a pass: a checkpoint that      *)
(* cannot be loaded counts as no checkpoint, and a checkpoint that cannot  *)
(* be saved (the directory cannot be created included) is skipped; neither *)
(* ends the invocation with an error.                                      *)
(***************************************************************************)
C17_CheckpointIOFailuresAbsorbed ==
    /\ hist.failure # "checkpoint"
    /\ (InPass /\ hist.pass.loaded.state # "ok") => ~hist.pass.resumed

(***************************************************************************)
(* C19: a pass that reached its end leaves its checkpoint with a null      *)
(* next_cursor, whether the last response had no next link or the pass     *)
(* ended on an empty page.                                                 *)
(***************************************************************************)
C19_DoneClearsCursor ==
    (hv.pc = "passdone" /\ ~hist.faulty) =>
        /\ CkptFile(hv.ckpt_path).state = "ok"
        /\ CkptFile(hv.ckpt_path).next_cursor = None

(***************************************************************************)
(* C20: first-request cursor.  As stated: the matching checkpoint's        *)
(* next_cursor when there is one, "1" in every other case.  As amended:    *)
(* in every other case the caller's start_cursor when given, else "1".     *)
(***************************************************************************)
MatchingCheckpointLoaded ==
    /\ hist.pass.loaded.state = "ok"
    /\ DictEq(hist.pass.loaded.signature, hv.sig)
    /\ Truthy(hist.pass.loaded.next_cursor)

C20_FreshStartUsesSentinel ==
    (InPass /\ hist.pass.firstReq # None) =>
        hist.pass.firstReq =
            IF MatchingCheckpointLoaded THEN hist.pass.loaded.next_cursor ELSE "1"

C20_FirstRequestCursor ==
    (InPass /\ hist.pass.firstReq # None) =>
        hist.pass.firstReq =
            IF MatchingCheckpointLoaded THEN hist.pass.loaded.next_cursor
            ELSE IF Truthy(cfg.start_cursor) THEN cfg.start_cursor ELSE "1"

\* a pass called with start_cursor "2" resumed at the checkpoint's cursor "3"
C20_Witness ==
    /\ InPass
    /\ MatchingCheckpointLoaded
    /\ cfg.start_cursor = "2"
    /\ hist.pass.loaded.next_cursor = "3"
    /\ hist.pass.firstReq = "3"

(***************************************************************************)
(* C26: an invocation with resume=False restores no cursor from a          *)
(* checkpoint file: the first page request of each of its passes uses the  *)
(* start cursor, whatever checkpoint is on disk.                           *)
(***************************************************************************)
C26_ResumeSwitchHonoured ==
    (~cfg.resume /\ InPass /\ hist.pass.firstReq # None) =>
        /\ ~hist.pass.resumed
        /\ hist.pass.firstReq = InitialCursor(cfg)

(***************************************************************************)
(* C27: a fetch makes at most Retries attempts and then returns or fails;  *)
(* and when no fetch of an invocation fails (the result sets are finite    *)
(* chains of pages), every pass of the invocation ends and the invocation  *)
(* finishes.                                                               *)
(***************************************************************************)
FetchEnded == rq.status \in {"returned", "raised", "none"}

AllPassesDone == hv.pc = "done" /\ hist.ended = 1..Len(PassList(cfg))

C27_Termination ==
    /\ [](rq.attempt <= Retries /\ Len(rq.resps) <= Retries)
    /\ (rq.status = "running") ~> FetchEnded
    /\ [](hist.failure # "fetch") => ((hv.pc = "pass") ~> AllPassesDone)

(***************************************************************************)
(* C25: a pass reads and writes only the checkpoint file of its own        *)
(* (signature, client id) pair; two passes of one invocation that differ   *)
(* in signature or in client id have different checkpoint files, and no    *)
(* step of a running pass changes the file of another path.                *)
(***************************************************************************)
PassParams(i) == BuildParams(cfg, PassList(cfg)[i])

PathOfPass(i) ==
    CheckpointPath(SigHash(SigDict(PassParams(i))), PassList(cfg)[i].cid)

\* cfg does not change while an invocation runs: the paths of its passes are
\* compared when a pass starts
Streaming(h) == h.pc \in {"fetch", "yield", "save"}

\* on every step: the passes of the invocation have different paths (compared
\* when a pass starts; cfg does not change while the invocation runs); the
\* stream opens on the pass's own path, loads from it and keeps it while it
\* streams; and only a streaming pass changes a checkpoint file, and only
\* the file at that path
C25_CheckpointIsolation ==
    [][ /\ (hv.pc = "pass" /\ hv'.pc = "stream") =>
              \A j \in 1..Len(PassList(cfg)) : \A i \in 1..(j - 1) :
                 \/ ~DictEq(SigDict(PassParams(i)), SigDict(PassParams(j)))
                 \/ PassList(cfg)[i].cid # PassList(cfg)[j].cid
                 => PathOfPass(i) # PathOfPass(j)
        /\ (hv.pc = "stream" /\ hv'.pc = "fetch") =>
              /\ hv'.ckpt_path = PathOfPass(hv.passIdx)
              /\ hv'.passIdx = hv.passIdx
              /\ hist'.pass.loaded = LoadCheckpoint(hv'.ckpt_path)
        /\ (Streaming(hv) /\ Streaming(hv')) =>
              /\ hv'.ckpt_path = hv.ckpt_path
              /\ hv'.passIdx = hv.passIdx
        /\ (Running /\ disk'.ckpt # disk.ckpt) =>
              /\ Streaming(hv)
              /\ \A p \in (DOMAIN disk.ckpt) \cup (DOMAIN disk'.ckpt) :
                    p = hv.ckpt_path
                    \/ /\ p \in DOMAIN disk.ckpt
                       /\ p \in DOMAIN disk'.ckpt
                       /\ disk'.ckpt[p] = disk.ckpt[p] ]_vars

\* the second pass of an invocation has saved its checkpoint next to the
\* first pass's: two files, the first one as the first pass left it
C25_Witness ==
    /\ hist.run = 1
    /\ hv.passIdx = 2
    /\ hv.pc = "passdone"
    /\ hist.pass.saveOutcome = "ok"
    /\ PathOfPass(1) # PathOfPass(2)
    /\ DOMAIN disk.ckpt = {PathOfPass(1), PathOfPass(2)}
    /\ disk.ckpt[PathOfPass(1)].state = "ok"
    /\ disk.ckpt[PathOfPass(2)].state = "ok"

(***************************************************************************)
(* C22: the final deduplication of the harvest keeps one row per doi, and  *)
(* the kept row comes first among the rows of its doi when rows are        *)
(* ordered by the number of non-null values among provider_id and          *)
(* alternate_ids_json, descending, then by the registered, updated and     *)
(* created dates, ascending with missing values last: no row of the same   *)
(* doi has more such values, and none of the same number has an earlier    *)
(* registered date.                                                        *)
(***************************************************************************)
Signals(row) ==
    Cardinality({f \in {"provider_id", "alternate_ids_json"} : row[f] # None})

\* u is a date and v is missing or a later date
Earlier(u, v) == u # None /\ (v = None \/ DateCode(u) < DateCode(v))

NotRankedAfter(a, b) ==
    \/ Signals(a) > Signals(b)
    \/ /\ Signals(a) = Signals(b)
       /\ \/ Earlier(a.registered, b.registered)
          \/ /\ a.registered = b.registered
             /\ \/ Earlier(a.updated, b.updated)
                \/ /\ a.updated = b.updated
                   /\ \/ Earlier(a.created, b.created)
                      \/ a.created = b.created

C22_DedupKeepsRichestEarliest ==
    dd.kind = "done" =>
        /\ \A j \in 1..Len(dd.df) :
              Cardinality({k \in 1..Len(dd.kept) :
                             dd.df[dd.kept[k]].doi = dd.df[j].doi}) = 1
        /\ \A k \in 1..Len(dd.kept) : \A j \in 1..Len(dd.df) :
              dd.df[j].doi = dd.df[dd.kept[k]].doi =>
                  /\ NotRankedAfter(dd.df[dd.kept[k]], dd.df[j])
                  /\ Signals(dd.df[dd.kept[k]]) >= Signals(dd.df[j])
                  /\ (Signals(dd.df[dd.kept[k]]) = Signals(dd.df[j])
                      /\ dd.df[j].registered # None) =>
                         /\ dd.df[dd.kept[k]].registered # None
                         /\ DateCode(dd.df[dd.kept[k]].registered)
                                <= DateCode(dd.df[j].registered)

\* two rows of one doi: the first has the earlier date and no signal, the
\* second one signal and no date; the second is kept
C22_Witness ==
    /\ dd.kind = "done"
    /\ Len(dd.df) = 2
    /\ dd.df[1].doi = dd.df[2].doi
    /\ Signals(dd.df[1]) = 0
    /\ dd.df[1].registered = DateOrder[1]
    /\ Signals(dd.df[2]) = 1
    /\ dd.df[2].registered = None
    /\ dd.kept = <<2>>

(***************************************************************************)
(* C13: the merged output holds exactly one row per record identifier,     *)
(* and of the input rows that share an identifier the kept one is the      *)
(* richest (most non-null optional fields), whatever the read order.       *)
(***************************************************************************)
Doi(schema, row) == row[CHOOSE k \in 1..Len(schema) : schema[k][1] = "doi"]

Richness(schema, row) ==
    Cardinality({k \in 1..Len(row) : schema[k][1] # "doi" /\ row[k] # None})

C13_MergeDeduplicates ==
    (mg.pc = "done" /\ mg.out.exists /\ mg.faults = {}) =>
        LET rows  == mg.out.rows
            sch   == mg.out.schema
        IN  /\ \A i, j \in 1..Len(rows) :
                  i # j => Doi(sch, rows[i]) # Doi(sch, rows[j])
            /\ \A k \in 1..Len(mg.all_paths) :
                  LET shard == ShardAt(mg.all_paths[k])
                  IN  \A r \in 1..Len(shard.rows) :
                         \E i \in 1..Len(rows) :
                            /\ Doi(sch, rows[i]) = Doi(shard.schema, shard.rows[r])
                            /\ Richness(sch, rows[i]) >=
                                   Richness(shard.schema, shard.rows[r])

(***************************************************************************)
(* C14: atomic output: the final path comes into existence only by the     *)
(* rename, after every shard was processed with an opened writer; and if   *)
(* the writer failed, at the end of the merge no temporary file remains,   *)
(* no file is at the final path and the report's parquet path is null.     *)
(***************************************************************************)
MergeEnded == mg.pc \in {"done", "raised"}

WriterFailed == mg.faults \cap {"open", "write", "close"} # {}

C14_AtomicMergeOutput ==
    /\ mg.out.exists =>
          /\ mg.pc = "done"
          /\ mg.writer = "closed"
          /\ mg.i > Len(mg.all_paths)
    /\ (MergeEnded /\ WriterFailed) =>
          /\ ~mg.tmp.exists
          /\ ~mg.out.exists
          /\ mg.report.parquet = None

(***************************************************************************)
(* C15: the only fatal precondition is that no shard is readable: with a   *)
(* readable shard schema the merge never fails because another shard's     *)
(* schema or data is unreadable, and with no shard discovered or no        *)
(* schema readable it fails before any output file is created.             *)
(***************************************************************************)
\* the files under a parent that exists
FilesUnderParents ==
    {f \in Range(mg.listing) : \E k \in 1..Len(mg.parents) : IsPrefix(Norm(mg.parents[k]), f)}

ReadableShardExists == \E f \in FilesUnderParents : mg.content[f].schemaOk

\* two readable shards store one column with two types that do not merge
TypeClash ==
    \E f, g \in FilesUnderParents :
        /\ mg.content[f].schemaOk
        /\ mg.content[g].schemaOk
        /\ \E n \in FieldNames(mg.content[f].schema) \cap FieldNames(mg.content[g].schema) :
              LET tf == FieldType(AlignScore(mg.content[f].schema), n)
                  tg == FieldType(AlignScore(mg.content[g].schema), n)
              IN  tf # tg /\ tf # "null" /\ tg # "null"

C15_OnlyFatalPrecondition ==
    /\ (mg.pc = "raised" /\ ReadableShardExists) =>
          /\ mg.error \in {"output_dir", "unify", "close"}
          /\ mg.error = "unify" => TypeClash
    /\ mg.pc \in {"open", "copy", "close", "finalize", "done"} => ReadableShardExists
    /\ (mg.pc = "raised" /\ mg.error \in {"no_files", "no_schema"}) =>
          /\ ~ReadableShardExists
          /\ ~mg.tmp.exists
          /\ ~mg.out.exists

\* a merge over an unreadable file and a readable one returned its report
C15_Witness ==
    /\ mg.pc = "done"
    /\ mg.out.exists
    /\ \E k \in 1..Len(mg.all_paths) : ~ShardAt(mg.all_paths[k]).schemaOk
    /\ \E k \in 1..Len(mg.all_paths) : ~ShardAt(mg.all_paths[k]).dataOk
                                          /\ ShardAt(mg.all_paths[k]).schemaOk

(***************************************************************************)
(* C16: the unified schema does not depend on the order of the shards:     *)
(* every permutation of the list gives the same columns, types and column  *)
(* order.                                                                  *)
(***************************************************************************)
C16_UnifyOrderIndependent ==
    un.kind = "done" => un.unified = un.unifiedPerm

(***************************************************************************)
(* C18: discovery returns each file at most once, for any list of roots    *)
(* (overlapping, repeated, nested) and either setting of one_level_deep,   *)
(* and a missing root does not keep the files of the other roots out.      *)
(***************************************************************************)
C18_DiscoveryReturnsEachFileOnce ==
    dv.kind = "done" =>
        /\ \A i, j \in 1..Len(dv.records) :
              i # j => dv.records[i].filepath # dv.records[j].filepath
        /\ \A f \in Range(dv.listing) :
              (/\ \E k \in 1..Len(dv.parents) : IsPrefix(Norm(dv.parents[k]), f)
               /\ Contains(f[Len(f)], dv.name_contains))
                  => \E i \in 1..Len(dv.records) : dv.records[i].filepath = f

(***************************************************************************)
(* C23: the report's rows_written is the sum of the row counts of the      *)
(* shards that were read, aligned and appended to the output writer; a     *)
(* shard that fails at one of the three adds nothing; and when the         *)
(* report's output path is null, rows_written is 0.                        *)
(***************************************************************************)
C23_RowsWrittenAccurate ==
    mg.pc = "done" =>
        /\ mg.report.rows_written = mg.appended
        /\ mg.report.parquet = None => mg.report.rows_written = 0

====
